---- MODULE Spec2Model ----
(***************************************************************************)
(* Model of src/Patrol.py: the Patrol class, its constructor, its four     *)
(* setters and check_transaction.                                          *)
(*                                                                         *)
(* Probabilities and thresholds are Python floats; they are represented as *)
(* integers counting units of 1e-7, so 0.2810381 is 2810381 and 1.0 is     *)
(* Unit.  A value handed to set_threshold carries its Python type, because *)
(* the code tests isinstance(threshold, float).                            *)
(*                                                                         *)
(* Strings that the code inspects character by character (transaction ids, *)
(* which Series.str.contains reads as a regular expression) are sequences  *)
(* of one-character strings.                                               *)
(***************************************************************************)
EXTENDS Integers, Sequences, FiniteSets, TLC

VARIABLES
    constructed,   \* TRUE once Patrol(...) has returned an instance
    model,         \* self.model
    data,          \* self.data
    feature_list,  \* self.feature_list
    threshold,     \* self.threshold
    called,        \* the method the caller invoked last
    arg,           \* the argument of that call
    raised,        \* the exception that reached the caller, or "none"
    result,        \* the value returned to the caller, or "none"
    caught,        \* check_transaction: the exception an except clause handled
    scored,        \* check_transaction: rows handed to predict_proba, -1 if not invoked
    probability,   \* check_transaction: the probability predict_proba returned, -1 if none
    notices        \* check_transaction: the completion notices printed by the finally clause

vars == <<constructed, model, data, feature_list, threshold,
          called, arg, raised, result, caught, scored, probability, notices>>

-----------------------------------------------------------------------------
(* Bounds and input samples *)

MaxRows == 2

Unit == 10 ^ 7

Elems(s) == {s[i] : i \in DOMAIN s}

SeqsUpTo(S, n) == UNION {[1..k -> S] : k \in 0..n}

-----------------------------------------------------------------------------
(* Class variables *)

default_model_path == "hypertuned_xgb_model.pkl"

default_feature_list ==
    <<"tr_type", "tr_state", "tr_amount_gbp", "tr_currency", "user_country",
      "user_age", "account_age", "tr_day", "tr_weekday", "tr_hour">>

default_threshold == 2810381

-----------------------------------------------------------------------------
(* Values the caller can pass *)

None == [kind |-> "None", columns |-> {}, tr_id |-> <<>>]

\* a value that is neither None nor a pandas DataFrame (a dict, a list, ...)
NotDataFrame == [kind |-> "dict", columns |-> {}, tr_id |-> <<>>]

DataFrame(columns, ids) == [kind |-> "DataFrame", columns |-> columns, tr_id |-> ids]

AllColumns == {"tr_id"} \cup Elems(default_feature_list)

ColumnSets == {AllColumns, AllColumns \ {"tr_hour"}}

\* transaction ids: "a", "aa" (contains "a"), "$a" (a regular expression that
\* matches no string)
TransactionIds == {<<"a">>, <<"a", "a">>, <<"$", "a">>}

\* frames of up to MaxRows rows, and an empty frame that has no tr_id column
DataFrames ==
    {DataFrame(c, ids) : c \in ColumnSets, ids \in SeqsUpTo(TransactionIds, MaxRows)}
    \cup {DataFrame(AllColumns \ {"tr_id"}, <<>>)}

DataInputs == {None, NotDataFrame} \cup DataFrames

FeatureLists == {default_feature_list,
                 <<"tr_amount_gbp", "user_age">>,
                 <<"tr_amount_gbp", "tr_hour">>}

Float(v) == [type |-> "float", val |-> v]

ThresholdInputs ==
    {Float(v) : v \in {0 - Unit \div 100, 0, default_threshold, Unit, Unit + Unit \div 100}}
    \cup {[type |-> "int", val |-> 0], [type |-> "int", val |-> Unit]}
    \cup {[type |-> "str", val |-> 0]}

ModelPaths == {default_model_path, "scaler.pkl", "missing.pkl"}

\* probabilities a model's predict_proba can return for one row
Probabilities == {0, default_threshold, Unit}

-----------------------------------------------------------------------------
(* Collaborators: joblib, pandas, re *)

\* joblib.load(model_path): the object pickled in the file, or FileNotFoundError
joblib_load(model_path) ==
    IF model_path = default_model_path
    THEN [raised |-> "none", obj |-> "XGBClassifier"]
    ELSE IF model_path = "scaler.pkl"
    THEN [raised |-> "none", obj |-> "StandardScaler"]
    ELSE [raised |-> "FileNotFoundError", obj |-> "none"]

\* hasattr(obj, 'predict_proba')
has_predict_proba(obj) == obj = "XGBClassifier"

\* the regular expression pat matches s at offset i (i characters consumed):
\* "$" asserts the end of the string, any other character matches itself
RECURSIVE re_match(_, _, _)
re_match(pat, s, i) ==
    IF pat = <<>> THEN TRUE
    ELSE IF Head(pat) = "$"
    THEN i = Len(s) /\ re_match(Tail(pat), s, i)
    ELSE i < Len(s) /\ s[i + 1] = Head(pat) /\ re_match(Tail(pat), s, i + 1)

\* re.search(pat, s) finds a match: what Series.str.contains(pat) computes per row
str_contains(s, pat) == \E i \in 0..Len(s) : re_match(pat, s, i)

\* self.data[self.data['tr_id'] == transaction_id]: the tr_id of the rows selected
rows_equal(df, transaction_id) ==
    SelectSeq(df.tr_id, LAMBDA id : id = transaction_id)

-----------------------------------------------------------------------------
(* The instance *)

Self == [model |-> model, data |-> data,
         feature_list |-> feature_list, threshold |-> threshold]

\* an instance before __init__ has assigned any attribute
Unset == [model |-> "unset",
          data |-> [kind |-> "unset", columns |-> {}, tr_id |-> <<>>],
          feature_list |-> <<>>,
          threshold |-> [type |-> "unset", val |-> 0]]

After(self, exc) == [self |-> self, raised |-> exc]

-----------------------------------------------------------------------------
(* The setters: the instance after the call and the exception raised *)

set_model_path(self, model_path) ==
    LET loaded == joblib_load(model_path) IN
    IF loaded.raised # "none"
    THEN After(self, loaded.raised)
    ELSE LET self1 == [self EXCEPT !.model = loaded.obj] IN
         IF ~has_predict_proba(self1.model)
         THEN After(self1, "AttributeError")
         ELSE After(self1, "none")

set_data(self, d) ==
    IF d.kind = "None" THEN After(self, "ValueError")
    ELSE IF d.kind # "DataFrame" THEN After(self, "TypeError")
    ELSE After([self EXCEPT !.data = d], "none")

\* set_feature_list with any() in place of all()
set_feature_list_any(self, fl) ==
    LET self1 == [self EXCEPT !.feature_list = fl] IN
    IF ~(\E i \in DOMAIN self1.feature_list :
             self1.feature_list[i] \in self1.data.columns)
    THEN After(self1, "ValueError")
    ELSE After(self1, "none")

\* set_feature_list checking the list before storing it
set_feature_list_check_first(self, fl) ==
    IF ~(\A i \in DOMAIN fl : fl[i] \in self.data.columns)
    THEN After(self, "ValueError")
    ELSE After([self EXCEPT !.feature_list = fl], "none")

set_feature_list(self, fl) ==
    LET self1 == [self EXCEPT !.feature_list = fl] IN
    IF ~(\A i \in DOMAIN self1.feature_list :
             self1.feature_list[i] \in self1.data.columns)
    THEN After(self1, "ValueError")
    ELSE After(self1, "none")

\* set_threshold without the isinstance test
set_threshold_any_number(self, t) ==
    IF t.type \notin {"float", "int"} THEN After(self, "TypeError")
    ELSE IF ~(0 <= t.val /\ t.val <= Unit) THEN After(self, "ValueError")
    ELSE After([self EXCEPT !.threshold = t], "none")

set_threshold(self, t) ==
    IF t.type # "float" THEN After(self, "TypeError")
    ELSE IF ~(0 <= t.val /\ t.val <= Unit) THEN After(self, "ValueError")
    ELSE After([self EXCEPT !.threshold = t], "none")

\* __init__: the four setters in order; the first exception ends construction
Patrol_init(model_path, d, fl, t) ==
    LET r1 == set_model_path(Unset, model_path) IN
    IF r1.raised # "none" THEN r1 ELSE
    LET r2 == set_data(r1.self, d) IN
    IF r2.raised # "none" THEN r2 ELSE
    LET r3 == set_feature_list(r2.self, fl) IN
    IF r3.raised # "none" THEN r3 ELSE
    set_threshold(r3.self, t)

-----------------------------------------------------------------------------
(* check_transaction *)

CANNOT == "Action cannot be generated."

\* how the try block ends: the exception it raised (or "none"), the local
\* variable result ("unbound" while never assigned), the number of rows handed
\* to predict_proba (-1: not invoked) and the probability it returned (-1: none)
Ends(exc, res, n, p) == [exc |-> exc, result |-> res, scored |-> n, probability |-> p]

\* self.model.predict_proba(transaction_features)[:, 1] on n rows, then the
\* comparison with the threshold.  The model is an opaque object: on one row it
\* returns some probability or fails.  On no row it fails or returns an empty
\* array, whose truth value is False or an error depending on the numpy version.
score_and_compare(self, n) ==
    IF ~has_predict_proba(self.model)
    THEN {Ends("AttributeError", "unbound", -1, -1)}
    ELSE IF n = 0
    THEN {Ends("Exception", "unbound", 0, -1),
          Ends("ValueError", "unbound", 0, -1),
          Ends("none", "PASS", 0, -1)}
    ELSE {Ends("Exception", "unbound", n, -1)}
         \cup {Ends("none", IF p >= self.threshold.val THEN "LOCK" ELSE "PASS", n, p) :
                   p \in Probabilities}

\* lines 184-223
try_block(self, transaction_id) ==
    IF self.data.kind = "None"
    THEN {Ends("ValueError", "unbound", -1, -1)}
    ELSE IF "tr_id" \notin self.data.columns
    THEN {Ends("KeyError", "unbound", -1, -1)}
    ELSE IF ~(\E i \in DOMAIN self.data.tr_id :
                  str_contains(self.data.tr_id[i], transaction_id))
    THEN {Ends("ValueError", "unbound", -1, -1)}
    ELSE IF ~(Elems(self.feature_list) \subseteq self.data.columns)
    THEN {Ends("KeyError", "unbound", -1, -1)}
    ELSE LET transaction_features ==
                 [columns |-> self.feature_list,
                  rows |-> Len(rows_equal(self.data, transaction_id))]
             num_transaction_features == Len(transaction_features.columns)
             num_expected_features == Len(self.feature_list)
             extracted_features == Elems(transaction_features.columns)
             expected_features == Elems(self.feature_list)
         IN  IF transaction_features.rows > 1
             THEN {Ends("ValueError", "unbound", -1, -1)}
             ELSE IF num_transaction_features # num_expected_features
             THEN {Ends("ValueError", "unbound", -1, -1)}
             ELSE IF extracted_features # expected_features
             THEN {Ends("ValueError", "unbound", -1, -1)}
             ELSE score_and_compare(self, transaction_features.rows)

\* lines 225-236: the except clauses make the sentinel the pending return
\* value, then the finally clause formats the notice from the local variable
\* result; reading it while unbound raises UnboundLocalError, which replaces
\* the pending return
handlers_and_finally(transaction_id, end) ==
    LET pending == IF end.exc = "none" THEN end.result ELSE CANNOT IN
    IF end.result = "unbound"
    THEN [raised |-> "UnboundLocalError", result |-> "none", caught |-> end.exc,
          scored |-> end.scored, probability |-> end.probability,
          notices |-> <<>>]
    ELSE [raised |-> "none", result |-> pending, caught |-> end.exc,
          scored |-> end.scored, probability |-> end.probability,
          notices |-> <<[transaction_id |-> transaction_id, result |-> end.result]>>]

\* every way a call check_transaction(transaction_id) can end
check_transaction(self, transaction_id) ==
    {handlers_and_finally(transaction_id, end) : end \in try_block(self, transaction_id)}

-----------------------------------------------------------------------------
(* The state machine: one caller, one instance *)

NoCheck == /\ caught' = "none"
           /\ scored' = -1
           /\ probability' = -1
           /\ notices' = <<>>

Install(self) == /\ model' = self.model
                 /\ data' = self.data
                 /\ feature_list' = self.feature_list
                 /\ threshold' = self.threshold

Init == /\ constructed = FALSE
        /\ model = Unset.model
        /\ data = Unset.data
        /\ feature_list = Unset.feature_list
        /\ threshold = Unset.threshold
        /\ called = "none"
        /\ arg = "none"
        /\ raised = "none"
        /\ result = "none"
        /\ caught = "none"
        /\ scored = -1
        /\ probability = -1
        /\ notices = <<>>

\* Patrol(model_path, data, feature_list, threshold): an instance exists only
\* when __init__ returns; after a failure the caller may try again
Construct ==
    /\ ~constructed
    /\ \E model_path \in ModelPaths, d \in DataInputs,
          fl \in FeatureLists, t \in ThresholdInputs :
          LET r == Patrol_init(model_path, d, fl, t) IN
          /\ called' = "__init__"
          /\ arg' = [data |-> d]
          /\ raised' = r.raised
          /\ constructed' = (r.raised = "none")
          /\ Install(IF r.raised = "none" THEN r.self ELSE Unset)
    /\ result' = "none"
    /\ NoCheck

Setter(name, a, r) ==
    /\ constructed
    /\ called' = name
    /\ arg' = a
    /\ raised' = r.raised
    /\ Install(r.self)
    /\ result' = "none"
    /\ NoCheck
    /\ UNCHANGED constructed

SetModelPath == \E model_path \in ModelPaths :
    Setter("set_model_path", model_path, set_model_path(Self, model_path))

SetData == \E d \in DataInputs :
    Setter("set_data", d, set_data(Self, d))

SetFeatureList == \E fl \in FeatureLists :
    Setter("set_feature_list", fl, set_feature_list(Self, fl))

SetThreshold == \E t \in ThresholdInputs :
    Setter("set_threshold", t, set_threshold(Self, t))

CheckTransaction ==
    /\ constructed
    /\ \E transaction_id \in TransactionIds :
       \E out \in check_transaction(Self, transaction_id) :
          /\ called' = "check_transaction"
          /\ arg' = transaction_id
          /\ raised' = out.raised
          /\ result' = out.result
          /\ caught' = out.caught
          /\ scored' = out.scored
          /\ probability' = out.probability
          /\ notices' = out.notices
    /\ UNCHANGED <<constructed, model, data, feature_list, threshold>>

Next == \/ Construct
        \/ SetModelPath
        \/ SetData
        \/ SetFeatureList
        \/ SetThreshold
        \/ CheckTransaction

Spec == Init /\ [][Next]_vars

-----------------------------------------------------------------------------
(* Properties *)

OUTCOMES == {"PASS", "LOCK", CANNOT}

\* the rows of the stored table whose tr_id equals the id of the last call
Matching == Len(rows_equal(data, arg))

\* C1: check_transaction never raises to its caller: every call returns one of
\* 'PASS', 'LOCK' or 'Action cannot be generated.'
C1_NeverRaises ==
    called = "check_transaction" => (raised = "none" /\ result \in OUTCOMES)

\* C2: with a model that has predict_proba, an id that equals the tr_id of
\* exactly one row and all declared feature columns present, the call returns
\* 'LOCK' when the probability the model returned is >= the threshold and
\* 'PASS' otherwise (a call in which predict_proba itself failed is set aside)
C2_LockIffAtOrAbove ==
    (/\ called = "check_transaction"
     /\ has_predict_proba(model)
     /\ "tr_id" \in data.columns
     /\ Elems(feature_list) \subseteq data.columns
     /\ Matching = 1
     /\ ~(scored = 1 /\ probability = -1))
    => (/\ raised = "none"
        /\ probability # -1
        /\ result = IF probability >= threshold.val THEN "LOCK" ELSE "PASS")

\* C3: an id with no matching row, or with two or more matching rows, makes
\* check_transaction return 'Action cannot be generated.'
C3_ZeroOrManyIndeterminate ==
    (/\ called = "check_transaction"
     /\ "tr_id" \in data.columns
     /\ Matching # 1)
    => (raised = "none" /\ result = CANNOT)

\* C4: with no dataset loaded the instance exists, so that check_transaction
\* can be called on it, and the call returns 'Action cannot be generated.'
C4_NoDatasetIndeterminate ==
    /\ (called = "__init__" /\ arg.data = None) => constructed
    /\ (called = "check_transaction" /\ data = None)
           => (raised = "none" /\ result = CANNOT)

\* C5: every call of check_transaction prints the completion notice exactly
\* once, and the notice names the transaction id and the outcome of the call
C5_NoticeExactlyOnce ==
    called = "check_transaction"
    => (/\ raised = "none"
        /\ notices = <<[transaction_id |-> arg, result |-> result]>>)

\* a real number in [0, 1], whatever its Python type
RealIn01(t) == t.type \in {"float", "int"} /\ 0 <= t.val /\ t.val <= Unit

\* a Python float in [0, 1]
FloatIn01(t) == t.type = "float" /\ 0 <= t.val /\ t.val <= Unit

\* C6 as stated: set_threshold stores the value and returns if and only if the
\* value is a real number in [0, 1]; otherwise it raises and the stored
\* threshold is unchanged; the stored threshold is always a real in [0, 1]
C6_AcceptsRealsIn01 ==
    /\ [][called' = "set_threshold" =>
            IF RealIn01(arg')
            THEN raised' = "none" /\ threshold' = arg'
            ELSE raised' # "none" /\ threshold' = threshold]_vars
    /\ [](constructed => RealIn01(threshold))

\* C6 amended: set_threshold stores the value and returns if and only if the
\* value is a float in [0, 1] (0.0 and 1.0 included); a float outside [0, 1]
\* raises ValueError and any other type, the integers 0 and 1 included, raises
\* TypeError, the stored threshold being unchanged; the stored threshold is
\* always a float in [0, 1]
C6_AcceptsFloatsIn01 ==
    /\ [][called' = "set_threshold" =>
            IF FloatIn01(arg')
            THEN raised' = "none" /\ threshold' = arg'
            ELSE /\ raised' = IF arg'.type = "float" THEN "ValueError" ELSE "TypeError"
                 /\ threshold' = threshold]_vars
    /\ [](constructed => FloatIn01(threshold))

\* the integer 1 was refused although it is a real number in [0, 1]
C6_Witness ==
    /\ constructed
    /\ called = "set_threshold"
    /\ arg = [type |-> "int", val |-> Unit]
    /\ raised = "TypeError"
    /\ FloatIn01(threshold)

\* C7: set_feature_list returns normally if and only if every name of the list
\* is a column of the stored table; otherwise it raises ValueError
C7_AcceptsIffAllColumns ==
    called = "set_feature_list"
    => /\ (raised = "none") <=> (Elems(arg) \subseteq data.columns)
       /\ raised \in {"none", "ValueError"}

\* a list was accepted against a table that lacks a column of the default list
C7_Witness ==
    /\ called = "set_feature_list"
    /\ raised = "none"
    /\ arg # <<>>
    /\ ~(Elems(default_feature_list) \subseteq data.columns)

\* C8: a call of set_feature_list that raises leaves the new list stored, a
\* list with a name that is no column of the table, and leaves the model, the
\* table and the threshold as they were
C8_FailedCallKeepsNewList ==
    [][(called' = "set_feature_list" /\ raised' # "none") =>
          /\ feature_list' = arg'
          /\ ~(Elems(feature_list') \subseteq data'.columns)
          /\ model' = model
          /\ data' = data
          /\ threshold' = threshold]_vars

\* a failed call replaced the stored list by one the table cannot serve
C8_Witness ==
    /\ constructed
    /\ called = "set_feature_list"
    /\ raised = "ValueError"
    /\ feature_list = arg
    /\ "tr_hour" \in Elems(feature_list) \ data.columns

\* C9: the stored model always has predict_proba: a call of set_model_path
\* that fails leaves the previous model in place
C9_ModelAlwaysScores ==
    /\ constructed => has_predict_proba(model)
    /\ (called = "set_model_path" /\ raised # "none") => has_predict_proba(model)

\* the id of the last call passes the existence test of line 190 although no
\* row has that tr_id
OnlyInsideStoredIds ==
    /\ "tr_id" \in data.columns
    /\ Matching = 0
    /\ \E i \in DOMAIN data.tr_id : str_contains(data.tr_id[i], arg)

\* C10: predict_proba is invoked only on the one row whose tr_id equals the
\* id; an id that only occurs inside stored ids is not scored and the call
\* returns 'Action cannot be generated.'
C10_ScoresOnlyTheMatchingRow ==
    called = "check_transaction"
    => /\ scored # -1 => (scored = 1 /\ Matching = 1)
       /\ OnlyInsideStoredIds
              => (scored = -1 /\ raised = "none" /\ result = CANNOT)

====
